---- MODULE Spec2Model ----
(***************************************************************************)
(* Multi-Scale Structural Similarity (piq/ms_ssim.py).                     *)
(*                                                                         *)
(* One behaviour is one call: either multi_scale_ssim(x, y, ...) or        *)
(* MultiScaleSSIMLoss(...).forward(x, y).  A tensor is modelled by its     *)
(* shape (a tuple of sizes); the content of the image pair is modelled by  *)
(* what the per-channel SSIM primitive answers for it at each pyramid      *)
(* level (the table inp.resp), because the primitive itself lives in       *)
(* piq.ssim.  Numbers are exact rationals <<num, den>>; <<0, 0>> is NaN.   *)
(* A weight is an integer number of 1/WeightUnit.  A phase is an integer   *)
(* number of quarter turns (pi/2), times WeightUnit after weighting.       *)
(* kernel_sigma, k1 and k2 are handed through to gaussian_filter and the   *)
(* primitive unchanged and change nothing that is modelled here.           *)
(***************************************************************************)
EXTENDS Integers, Sequences, FiniteSets, TLC

VARIABLES
    entry,                \* "metric": multi_scale_ssim is called; "loss": forward is
    conf,                 \* the configuration the caller chose
    inp,                  \* the caller's tensors: rank, sizes, content
    self,                 \* the fields of the MultiScaleSSIMLoss object
    pc,                   \* position in the call
    args,                 \* the arguments multi_scale_ssim was called with
    x, y,                 \* shapes of the local tensors x and y
    scaled,               \* x / data_range and y / data_range were computed
    scale_weights_tensor, \* local of multi_scale_ssim, parameter of the engines
    kernel,               \* kernel.size(-1), 0 while no kernel was generated
    iteration,            \* loop variable of the engines
    mcs, ssim_val,        \* locals of the engines
    calls,                \* the calls of the SSIM primitive made so far
    pools,                \* the pad + avg_pool2d steps made so far
    stacked,              \* mcs[:-1] + [ssim_val]
    mcs_ssim,             \* torch.relu(torch.stack(...))
    msssim_val,           \* what the engine returned
    score,                \* what multi_scale_ssim returned
    result,               \* what the called entry returned
    err                   \* the exception that left the call, "" if none

vars == <<entry, conf, inp, self, pc, args, x, y, scaled, scale_weights_tensor,
          kernel, iteration, mcs, ssim_val, calls, pools, stacked, mcs_ssim,
          msssim_val, score, result, err>>

-----------------------------------------------------------------------------
(* Bounds of the checked inputs.                                           *)

MaxDim == 9
MaxKernel == 3
MaxLevels == 3
MaxCells == 2

-----------------------------------------------------------------------------
(* Exact arithmetic.                                                       *)

WeightUnit == 10000

NaN == <<0, 0>>
One == <<1, 1>>
Zero == <<0, 1>>

RatAdd(a, b) == <<a[1] * b[2] + b[1] * a[2], a[2] * b[2]>>
RatSub(a, b) == <<a[1] * b[2] - b[1] * a[2], a[2] * b[2]>>
RatMul(a, b) == <<a[1] * b[1], a[2] * b[2]>>
RatDivInt(a, n) == <<a[1], a[2] * n>>
RatEq(a, b) == a[2] # 0 /\ b[2] # 0 /\ a[1] * b[2] = b[1] * a[2]
RatNonNeg(a) == a[2] > 0 /\ a[1] >= 0

RECURSIVE SumSeq(_)
SumSeq(s) == IF s = <<>> THEN Zero ELSE RatAdd(SumSeq(Tail(s)), Head(s))

RECURSIVE ProdSeq(_)
ProdSeq(s) == IF s = <<>> THEN One ELSE RatMul(ProdSeq(Tail(s)), Head(s))

RECURSIVE SumInt(_)
SumInt(s) == IF s = <<>> THEN 0 ELSE Head(s) + SumInt(Tail(s))

Max(a, b) == IF a >= b THEN a ELSE b

\* base ** weight for the bases the inputs produce (-1, 0, 1, and any integer
\* under a whole weight); a negative base under a fractional weight is NaN.
Pow(b, w) ==
    CASE b = 0 -> Zero
      [] b = 1 -> One
      [] b # 0 /\ b # 1 /\ w % WeightUnit = 0 -> <<b ^ (w \div WeightUnit), 1>>
      [] b < 0 /\ w % WeightUnit # 0 -> NaN

Relu(v) == IF v > 0 THEN v ELSE 0

\* sqrt of a perfect square
Sqrt(n) == CHOOSE r \in 0..n : r * r = n

\* atan2 on the axes, in quarter turns
Atan2(im, re) ==
    CASE im = 0 /\ re >= 0 -> 0
      [] im > 0 /\ re = 0 -> 1
      [] im = 0 /\ re < 0 -> 2
      [] im < 0 /\ re = 0 -> -1

\* cos and sin of d / WeightUnit quarter turns, d a multiple of WeightUnit
Cos(d) == CASE d % WeightUnit = 0 ->
              LET q == (d \div WeightUnit) % 4
              IN  IF q = 0 THEN 1 ELSE IF q = 2 THEN -1 ELSE 0
Sin(d) == CASE d % WeightUnit = 0 ->
              LET q == (d \div WeightUnit) % 4
              IN  IF q = 1 THEN 1 ELSE IF q = 3 THEN -1 ELSE 0

-----------------------------------------------------------------------------
(* The caller's inputs.                                                    *)

DefaultWeights == <<448, 2856, 3001, 2363, 1333>>

Reductions == {"none", "mean", "sum", "avg"}

NoWeights == [kind |-> "none", w |-> <<>>]
ListWeights(L) == [kind |-> "list",
                   w |-> [i \in 1..L |-> IF i % 2 = 0 THEN 2 * WeightUnit ELSE WeightUnit]]
\* a scale_weights tensor that is not one-dimensional
BadWeights == [kind |-> "bad", w |-> <<WeightUnit>>]

Levels(sw) == IF sw.kind = "none" THEN Len(DefaultWeights) ELSE Len(sw.w)

TensorShape(rank, N, C, H, W) ==
    CASE rank = 1 -> <<W>>
      [] rank = 2 -> <<H, W>>
      [] rank = 3 -> <<C, H, W>>
      [] rank = 4 -> <<N, C, H, W>>
      [] rank = 5 -> <<N, C, H, W, 2>>
      [] rank = 6 -> <<N, C, H, W, 2, 1>>

\* The answers of the primitive for an image pair whose structure repeats
\* over the levels: profile 1 anti-correlated contrast at the odd levels,
\* profile 2 no similarity at all, profile 3 identical images, profile 4 a
\* contrast term of 2 at the finest level.
ProfileCell(complex, p, i) ==
    LET s == IF p = 2 THEN 0 ELSE 1
        c == IF p = 1 /\ i % 2 = 1 THEN -1 ELSE IF p = 4 /\ i = 1 THEN 2 ELSE 1
    IN  IF complex
        THEN [ssim |-> <<s, IF p = 2 THEN -1 ELSE 0>>, cs |-> <<c, IF c < 0 THEN -1 ELSE 0>>]
        ELSE [ssim |-> s, cs |-> c]

\* a base other than 0 and 1 has an exact power under whole weights only
Profiles(sw) == IF sw.kind = "list" THEN 1..4 ELSE 1..3

ProfileTable(complex, p, L) ==
    [i \in 1..L |-> <<<<ProfileCell(complex, p, i)>>>>]

RealVals == {-1, 0, 1}
ComplexVals == {<<1, 0>>, <<0, 1>>, <<-1, -1>>}

Tables(complex, N, C, L) ==
    LET V == IF complex THEN ComplexVals ELSE RealVals
    IN  [1..L -> [1..N -> [1..C -> [ssim : V, cs : V]]]]

\* the largest odd kernel side of the inputs, and the smallest image the
\* default five levels accept with it
OddKernel == IF MaxKernel % 2 = 1 THEN MaxKernel ELSE MaxKernel - 1
DefaultMin == (OddKernel - 1) * 16 + 1

SizePairs == ((1..MaxDim) \X (1..MaxDim))
             \cup ({DefaultMin - 1, DefaultMin} \X {DefaultMin - 1, DefaultMin})

Input(rank, N, C, H, W, ymis, resp) ==
    [xshape |-> TensorShape(rank, N, C, H, W),
     yshape |-> TensorShape(rank, N, C, IF ymis THEN H + 1 ELSE H, W),
     resp |-> resp]

Config(k, sw, red, dr) ==
    [kernel_size |-> k, scale_weights |-> sw, reduction |-> red, data_range |-> dr]

\* The inputs of the real path have rank at most 4, those of the complex
\* path rank 5 and more.
Ranks(complex, all) ==
    IF complex THEN (IF all THEN {5, 6} ELSE {5}) ELSE (IF all THEN 1..4 ELSE {4})

\* image sizes against kernel sizes and numbers of levels, one item, one channel
SizeInputs(complex) ==
    UNION { { <<"metric", Config(k, sw, "mean", 1),
                Input(rank, 1, 1, hw[1], hw[2], FALSE,
                      ProfileTable(complex, p, Levels(sw)))>> :
                k \in 1..MaxKernel, rank \in Ranks(complex, FALSE), hw \in SizePairs,
                p \in Profiles(sw) } :
            sw \in {NoWeights} \cup {ListWeights(L) : L \in 1..MaxLevels} }

\* well-formed and malformed calls on 5 x 5 images
CallInputs(complex) ==
    { <<e, Config(k, sw, red, 255),
        Input(rank, 1, 1, 5, 5, ymis, ProfileTable(complex, 1, Levels(sw)))>> :
        e \in {"metric", "loss"}, k \in 1..MaxKernel,
        sw \in {NoWeights, ListWeights(1), ListWeights(2), BadWeights},
        red \in Reductions, rank \in Ranks(complex, TRUE), ymis \in BOOLEAN }

\* batches and channels with every answer of the primitive, on images of
\* the minimum size for a 3 x 3 kernel
CellShapes ==
    { ncl \in (1..MaxCells) \X (1..MaxCells) \X (1..MaxCells) :
        ncl[1] * ncl[2] * ncl[3] <= MaxCells }

ValueInputs(complex) ==
    UNION { { <<e, Config(3, ListWeights(ncl[3]), red, 255),
                Input(rank, ncl[1], ncl[2], 2 * 2 ^ (ncl[3] - 1) + 1,
                      2 * 2 ^ (ncl[3] - 1) + 1, FALSE, t)>> :
                t \in Tables(complex, ncl[1], ncl[2], ncl[3]) } :
            e \in {"metric", "loss"}, red \in Reductions,
            rank \in Ranks(complex, FALSE), ncl \in CellShapes }

Inputs(complex) == SizeInputs(complex) \cup CallInputs(complex) \cup ValueInputs(complex)

-----------------------------------------------------------------------------
(* MultiScaleSSIMLoss.__init__                                             *)

LossInit(c) ==
    [reduction |-> c.reduction,
     scale_weights |->
        IF c.scale_weights.kind = "none"
        THEN [kind |-> "tensor", w |-> DefaultWeights]
        ELSE IF c.scale_weights.kind = "list"
             THEN [kind |-> "tensor", w |-> c.scale_weights.w]
             ELSE c.scale_weights,
     kernel_size |-> c.kernel_size,
     data_range |-> c.data_range]

NoArgs == [kernel_size |-> 0, scale_weights |-> NoWeights, reduction |-> "",
           data_range |-> 0]

Init ==
    \E complex \in BOOLEAN : \E i \in Inputs(complex) :
        /\ entry = i[1]
        /\ conf = i[2]
        /\ inp = i[3]
        /\ self = LossInit(i[2])
        /\ pc = "start"
        /\ args = NoArgs
        /\ x = <<>> /\ y = <<>>
        /\ scaled = FALSE
        /\ scale_weights_tensor = <<>>
        /\ kernel = 0
        /\ iteration = 0
        /\ mcs = <<>> /\ ssim_val = <<>>
        /\ calls = <<>> /\ pools = <<>>
        /\ stacked = <<>> /\ mcs_ssim = <<>>
        /\ msssim_val = <<>>
        /\ score = <<>> /\ result = <<>>
        /\ err = ""

engineVars == <<iteration, mcs, ssim_val, calls, pools, stacked, mcs_ssim, msssim_val>>

-----------------------------------------------------------------------------
(* The two entries.                                                        *)

\* the caller calls multi_scale_ssim(x, y, kernel_size=..., ...)
CallMetric ==
    /\ pc = "start" /\ entry = "metric"
    /\ args' = conf
    /\ x' = inp.xshape /\ y' = inp.yshape
    /\ pc' = "entry"
    /\ UNCHANGED <<entry, conf, inp, self, scaled, scale_weights_tensor, kernel,
                   engineVars, score, result, err>>

\* forward, up to its call of multi_scale_ssim
ForwardCall ==
    /\ pc = "start" /\ entry = "loss"
    /\ args' = [kernel_size |-> self.kernel_size,
                scale_weights |-> self.scale_weights,
                reduction |-> self.reduction,
                data_range |-> self.data_range]
    /\ x' = inp.xshape /\ y' = inp.yshape
    /\ pc' = "entry"
    /\ UNCHANGED <<entry, conf, inp, self, scaled, scale_weights_tensor, kernel,
                   engineVars, score, result, err>>

-----------------------------------------------------------------------------
(* multi_scale_ssim, up to the call of the engine.                         *)

\* piq.utils._validate_input(input_tensors=(x, y), allow_5d=True, kernel_size,
\* scale_weights, data_range)
ValidInput(xs, ys, a) ==
    /\ Len(xs) \in 2..5
    /\ Len(ys) \in 2..5
    /\ xs = ys
    /\ a.kernel_size % 2 = 1
    /\ a.scale_weights.kind # "bad"

\* piq.utils._adjust_dimensions
AdjustDimensions(s) ==
    CASE Len(s) = 2 -> <<1, 1>> \o s
      [] Len(s) = 3 -> <<1>> \o s
      [] Len(s) \in {4, 5} -> s

Validate ==
    /\ pc = "entry"
    /\ IF ValidInput(x, y, args)
       THEN pc' = "validated" /\ err' = err
       ELSE pc' = "failed" /\ err' = "InvalidInput"
    /\ UNCHANGED <<entry, conf, inp, self, args, x, y, scaled, scale_weights_tensor,
                   kernel, engineVars, score, result>>

\* lines 64-80: normalise the rank, rescale, default the weights, make the
\* kernel, choose the engine
Prepare ==
    /\ pc = "validated"
    /\ x' = AdjustDimensions(x)
    /\ y' = AdjustDimensions(y)
    /\ scaled' = TRUE
    /\ scale_weights_tensor' =
          IF args.scale_weights.kind = "none" THEN DefaultWeights
          ELSE args.scale_weights.w
    /\ kernel' = args.kernel_size
    /\ pc' = IF Len(x') = 5 THEN "complex" ELSE "real"
    /\ UNCHANGED <<entry, conf, inp, self, args, engineVars, score, result, err>>

-----------------------------------------------------------------------------
(* Tensor operations on shapes.                                            *)

\* tensor.size(i), i negative counting from the end
Size(s, i) == IF i < 0 THEN s[Len(s) + 1 + i] ELSE s[i + 1]

\* F.pad(t, pad=[left, right, top, bottom]) of a 4-D tensor
Pad(s, left, right, top, bottom) ==
    [s EXCEPT ![Len(s)] = @ + left + right, ![Len(s) - 1] = @ + top + bottom]

\* output size of one pooled dimension: stride = kernel_size, no padding, floor
PoolSize(d, ksize) == (d - ksize) \div ksize + 1

\* F.avg_pool2d(t, kernel_size=ksize, padding=0) of a 4-D tensor
AvgPool2d(s, ksize) ==
    [s EXCEPT ![Len(s)] = PoolSize(@, ksize), ![Len(s) - 1] = PoolSize(@, ksize)]

\* MinSize with the exponent off by one
MinSizeOffByOne(k, levels) == (k - 1) * 2 ^ levels + 1

\* min_size = (kernel.size(-1) - 1) * 2 ** (levels - 1) + 1
MinSize(k, levels) == (k - 1) * 2 ^ (levels - 1) + 1

\* Padding left out
PaddingNone(s) == 0

\* padding = max(x.shape[2] % 2, x.shape[3] % 2)
Padding(s) == Max(Size(s, 2) % 2, Size(s, 3) % 2)

\* pad on the top and the left, then pool: what one level does to a 4-D tensor
Downsample(s, padding) == AvgPool2d(Pad(s, padding, 0, padding, 0), 2)

\* the two results of the primitive for the image pair at a level
SsimOf(level) == [n \in DOMAIN inp.resp[level] |->
                    [c \in DOMAIN inp.resp[level][n] |-> inp.resp[level][n][c].ssim]]
CsOf(level) == [n \in DOMAIN inp.resp[level] |->
                  [c \in DOMAIN inp.resp[level][n] |-> inp.resp[level][n][c].cs]]

\* mcs[:-1] + [ssim_val]
Stack(m, last) == SubSeq(m, 1, Len(m) - 1) \o <<last>>

\* tensor.mean(1) of a tensor (N, C) given as N rows
MeanOverChannels(rows) == [n \in DOMAIN rows |-> RatDivInt(SumSeq(rows[n]), Len(rows[n]))]

othersOfEngine == <<entry, conf, inp, self, args, scaled, scale_weights_tensor, kernel,
                    score, result>>

-----------------------------------------------------------------------------
(* _multi_scale_ssim                                                       *)

\* MsssimEnter without the size check
MsssimEnterUnchecked ==
    /\ pc = "real"
    /\ pc' = "real_loop"
    /\ mcs' = <<>> /\ ssim_val' = <<>>
    /\ iteration' = 0
    /\ UNCHANGED <<othersOfEngine, x, y, calls, pools, stacked, mcs_ssim, msssim_val, err>>

\* lines 223-229
MsssimEnter ==
    /\ pc = "real"
    /\ LET levels == Len(scale_weights_tensor)
           min_size == MinSize(kernel, levels)
       IN  IF Size(x, -1) < min_size \/ Size(x, -2) < min_size
           THEN pc' = "failed" /\ err' = "InvalidInput"
           ELSE pc' = "real_loop" /\ err' = err
    /\ mcs' = <<>> /\ ssim_val' = <<>>
    /\ iteration' = 0
    /\ UNCHANGED <<othersOfEngine, x, y, calls, pools, stacked, mcs_ssim, msssim_val>>

\* lines 230-239, one iteration
MsssimIterate ==
    /\ pc = "real_loop"
    /\ iteration < Len(scale_weights_tensor)
    /\ LET padding == Padding(x)
       IN  IF iteration > 0
           THEN /\ x' = Downsample(x, padding)
                /\ y' = Downsample(y, padding)
                /\ pools' = Append(pools, [in |-> x,
                                           padded |-> Pad(x, padding, 0, padding, 0),
                                           out |-> x'])
           ELSE UNCHANGED <<x, y, pools>>
    /\ calls' = Append(calls, [x |-> x', y |-> y', kernel |-> kernel,
                               level |-> iteration, pooled |-> Len(pools')])
    /\ ssim_val' = SsimOf(iteration + 1)
    /\ mcs' = Append(mcs, CsOf(iteration + 1))
    /\ iteration' = iteration + 1
    /\ UNCHANGED <<othersOfEngine, pc, stacked, mcs_ssim, msssim_val, err>>

\* RealStack keeping the contrast term of the last level
RealStackContrastOnly == mcs

RealStack == Stack(mcs, ssim_val)

\* RealRelu left out
RealReluIdentity(t) == t

\* torch.relu of the stacked terms
RealRelu(t) == [i \in DOMAIN t |-> [n \in DOMAIN t[i] |->
                  [c \in DOMAIN t[i][n] |-> Relu(t[i][n][c])]]]

\* torch.prod(mcs_ssim ** scale_weights_tensor.view(-1, 1, 1), dim=0).mean(1)
RealCombine(t, w) ==
    MeanOverChannels(
        [n \in DOMAIN t[1] |-> [c \in DOMAIN t[1][n] |->
            ProdSeq([i \in DOMAIN t |-> Pow(t[i][n][c], w[i])])]])

\* lines 241-247
MsssimCombine ==
    /\ pc = "real_loop"
    /\ iteration = Len(scale_weights_tensor)
    /\ stacked' = RealStack
    /\ mcs_ssim' = RealRelu(stacked')
    /\ msssim_val' = RealCombine(mcs_ssim', scale_weights_tensor)
    /\ pc' = "reduce"
    /\ UNCHANGED <<othersOfEngine, x, y, iteration, mcs, ssim_val, calls, pools, err>>

_multi_scale_ssim == MsssimEnter \/ MsssimIterate \/ MsssimCombine

-----------------------------------------------------------------------------
(* _multi_scale_ssim_complex                                               *)

\* lines 267-272
ComplexEnter ==
    /\ pc = "complex"
    /\ LET levels == Len(scale_weights_tensor)
           min_size == MinSize(kernel, levels)
       IN  IF Size(x, -2) < min_size \/ Size(x, -3) < min_size
           THEN pc' = "failed" /\ err' = "InvalidInput"
           ELSE pc' = "complex_loop" /\ err' = err
    /\ mcs' = <<>> /\ ssim_val' = <<>>
    /\ iteration' = 0
    /\ UNCHANGED <<othersOfEngine, x, y, calls, pools, stacked, mcs_ssim, msssim_val>>

\* x[..., 0] and x[..., 1]
Component(s) == SubSeq(s, 1, Len(s) - 1)

\* torch.stack((real, imag), dim=-1)
StackComponents(s) == Append(s, 2)

\* lines 273-293, one iteration
ComplexIterate ==
    /\ pc = "complex_loop"
    /\ iteration < Len(scale_weights_tensor)
    /\ LET padding == Padding(x)
       IN  IF iteration > 0
           THEN /\ x' = StackComponents(Downsample(Component(x), padding))
                /\ y' = StackComponents(Downsample(Component(y), padding))
                /\ pools' = Append(pools, [in |-> Component(x),
                                           padded |-> Pad(Component(x), padding, 0, padding, 0),
                                           out |-> Component(x')])
           ELSE UNCHANGED <<x, y, pools>>
    /\ calls' = Append(calls, [x |-> x', y |-> y', kernel |-> kernel,
                               level |-> iteration, pooled |-> Len(pools')])
    /\ ssim_val' = SsimOf(iteration + 1)
    /\ mcs' = Append(mcs, CsOf(iteration + 1))
    /\ iteration' = iteration + 1
    /\ UNCHANGED <<othersOfEngine, pc, stacked, mcs_ssim, msssim_val, err>>

ComplexStack == Stack(mcs, ssim_val)

ComplexRelu(t) == [i \in DOMAIN t |-> [n \in DOMAIN t[i] |->
                     [c \in DOMAIN t[i][n] |-> <<Relu(t[i][n][c][1]), Relu(t[i][n][c][2])>>]]]

\* lines 298-310
ComplexCombine(t, w) ==
    LET abs(i, n, c) == Sqrt(t[i][n][c][1] ^ 2 + t[i][n][c][2] ^ 2)
        deg(i, n, c) == Atan2(t[i][n][c][2], t[i][n][c][1])
        val_abs(n, c) == ProdSeq([i \in DOMAIN t |-> Pow(abs(i, n, c), w[i])])
        val_deg(n, c) == SumInt([i \in DOMAIN t |-> deg(i, n, c) * w[i]])
        re == MeanOverChannels([n \in DOMAIN t[1] |-> [c \in DOMAIN t[1][n] |->
                  RatMul(val_abs(n, c), <<Cos(val_deg(n, c)), 1>>)]])
        im == MeanOverChannels([n \in DOMAIN t[1] |-> [c \in DOMAIN t[1][n] |->
                  RatMul(val_abs(n, c), <<Sin(val_deg(n, c)), 1>>)]])
    IN  [n \in DOMAIN t[1] |-> <<re[n], im[n]>>]

\* lines 295-311
MsssimComplexCombine ==
    /\ pc = "complex_loop"
    /\ iteration = Len(scale_weights_tensor)
    /\ stacked' = ComplexStack
    /\ mcs_ssim' = ComplexRelu(stacked')
    /\ msssim_val' = ComplexCombine(mcs_ssim', scale_weights_tensor)
    /\ pc' = "reduce"
    /\ UNCHANGED <<othersOfEngine, x, y, iteration, mcs, ssim_val, calls, pools, err>>

_multi_scale_ssim_complex == ComplexEnter \/ ComplexIterate \/ MsssimComplexCombine

-----------------------------------------------------------------------------
(* multi_scale_ssim, after the engine returned; forward, after              *)
(* multi_scale_ssim returned.                                              *)

IsComplex == Len(x) = 5

\* torch.mean(t, dim=0) and torch.sum(t, dim=0)
TorchSum(t, complex) ==
    IF complex
    THEN <<SumSeq([n \in DOMAIN t |-> t[n][1]]), SumSeq([n \in DOMAIN t |-> t[n][2]])>>
    ELSE SumSeq(t)
\* TorchMean without the division
TorchMeanUndivided(t, complex) == TorchSum(t, complex)

TorchMean(t, complex) ==
    IF complex
    THEN <<RatDivInt(TorchSum(t, TRUE)[1], Len(t)), RatDivInt(TorchSum(t, TRUE)[2], Len(t))>>
    ELSE RatDivInt(TorchSum(t, FALSE), Len(t))

\* lines 91-95
Reduce ==
    /\ pc = "reduce"
    /\ IF args.reduction \in {"none", "mean", "sum"}
       THEN /\ score' = CASE args.reduction = "none" -> msssim_val
                          [] args.reduction = "mean" -> TorchMean(msssim_val, IsComplex)
                          [] args.reduction = "sum" -> TorchSum(msssim_val, IsComplex)
            /\ pc' = IF entry = "metric" THEN "done" ELSE "forward"
            /\ result' = IF entry = "metric" THEN score' ELSE result
            /\ err' = err
       ELSE /\ pc' = "failed" /\ err' = "KeyError"
            /\ UNCHANGED <<score, result>>
    /\ UNCHANGED <<entry, conf, inp, self, args, x, y, scaled, scale_weights_tensor,
                   kernel, engineVars>>

multi_scale_ssim == Validate \/ Prepare \/ Reduce

\* torch.ones_like(score) - score
OnesLikeMinus(s, complex, reduced) ==
    LET item(v) == IF complex THEN <<RatSub(One, v[1]), RatSub(One, v[2])>>
                   ELSE RatSub(One, v)
    IN  IF reduced THEN item(s) ELSE [n \in DOMAIN s |-> item(s[n])]

\* ForwardReturn handing the score back as it is
ForwardReturnScore ==
    /\ pc = "forward"
    /\ result' = score
    /\ pc' = "done"
    /\ UNCHANGED <<entry, conf, inp, self, args, x, y, scaled, scale_weights_tensor,
                   kernel, engineVars, score, err>>

\* line 203
ForwardReturn ==
    /\ pc = "forward"
    /\ result' = OnesLikeMinus(score, IsComplex, self.reduction # "none")
    /\ pc' = "done"
    /\ UNCHANGED <<entry, conf, inp, self, args, x, y, scaled, scale_weights_tensor,
                   kernel, engineVars, score, err>>

forward == ForwardCall \/ ForwardReturn

Next == CallMetric \/ forward \/ multi_scale_ssim \/ _multi_scale_ssim
        \/ _multi_scale_ssim_complex

Spec == Init /\ [][Next]_vars

TypeOK == pc \in {"start", "entry", "validated", "real", "real_loop", "complex",
                  "complex_loop", "reduce", "forward", "done", "failed"}

-----------------------------------------------------------------------------
(* What the caller handed in, read off conf and inp alone.                 *)

InRank == Len(inp.xshape)
InComplex == InRank = 5
InH == IF InComplex THEN inp.xshape[3] ELSE inp.xshape[InRank - 1]
InW == IF InComplex THEN inp.xshape[4] ELSE inp.xshape[InRank]
InN == IF InRank >= 4 THEN inp.xshape[1] ELSE 1
InC == IF InRank >= 4 THEN inp.xshape[2] ELSE IF InRank = 3 THEN inp.xshape[1] ELSE 1
InK == conf.kernel_size
InWeights == IF conf.scale_weights.kind = "none" THEN DefaultWeights
             ELSE conf.scale_weights.w
InLevels == Len(InWeights)

\* the minimum size as the documentation states it
StatedMinSize ==
    IF conf.scale_weights.kind = "none" THEN (InK - 1) * 16 + 1
    ELSE (InK - 1) * 2 ^ (InLevels - 1) + 1

WellFormed ==
    /\ InRank \in 2..5
    /\ inp.xshape = inp.yshape
    /\ InK % 2 = 1
    /\ conf.scale_weights.kind # "bad"

Undersized == InH < StatedMinSize \/ InW < StatedMinSize

EnginePassed == \/ pc \in {"real_loop", "complex_loop", "reduce", "forward", "done"}
                \/ pc = "failed" /\ err = "KeyError"
EngineFailed == pc = "failed" /\ err = "InvalidInput" /\ kernel # 0

\* an item of a result as the sequence of its components
Comps(v, complex) == IF complex THEN v ELSE <<v>>
NComps(complex) == IF complex THEN 2 ELSE 1

-----------------------------------------------------------------------------
(* C1: both engines raise InvalidInput exactly when the height or the      *)
(* width is below (k - 1) * 2^(L-1) + 1, which is (k - 1) * 16 + 1 for the *)
(* default five weights.                                                   *)
C1_MinSizeCheck ==
    /\ EnginePassed => InH >= StatedMinSize /\ InW >= StatedMinSize
    /\ EngineFailed => InH < StatedMinSize \/ InW < StatedMinSize

\* default weights, 3 x 3 kernel, complex engine: 33 x 32 is refused
C1_Witness ==
    /\ EngineFailed /\ InComplex
    /\ conf.scale_weights.kind = "none" /\ InK = 3
    /\ InH = 33 /\ InW = 32

\* default weights, 3 x 3 kernel, real engine: 33 x 33 is accepted
C1_WitnessAccepted ==
    /\ pc = "done" /\ ~InComplex
    /\ conf.scale_weights.kind = "none" /\ InK = 3
    /\ InH = 33 /\ InW = 33

-----------------------------------------------------------------------------
C2_Complement(r, s, complex) ==
    \A j \in 1..NComps(complex) :
        RatEq(RatAdd(Comps(r, complex)[j], Comps(s, complex)[j]), One)

-----------------------------------------------------------------------------
C3_SumOfComplements(j) ==
    SumSeq([n \in DOMAIN msssim_val |-> RatSub(One, Comps(msssim_val[n], InComplex)[j])])

(* C3: with reduction 'mean' the loss is mean(1 - MSSIM) over the batch,   *)
(* with 'sum' it is sum(1 - MSSIM) over the batch.                         *)
C3_LossReducesComplements ==
    entry = "loss" /\ pc = "done" /\ conf.reduction \in {"mean", "sum"} =>
        \A j \in 1..NComps(InComplex) :
            RatEq(Comps(result, InComplex)[j],
                  IF conf.reduction = "mean"
                  THEN RatDivInt(C3_SumOfComplements(j), Len(msssim_val))
                  ELSE C3_SumOfComplements(j))

-----------------------------------------------------------------------------
-----------------------------------------------------------------------------
(* C5: a reduction outside none, mean, sum fails with InvalidInput, not    *)
(* with a lookup error.                                                    *)
C5_UnknownReductionIsInvalidInput ==
    conf.reduction \notin {"none", "mean", "sum"} =>
        /\ pc # "done"
        /\ pc = "failed" => err = "InvalidInput"

-----------------------------------------------------------------------------
-----------------------------------------------------------------------------
C7_SumOfItems(j) ==
    SumSeq([n \in DOMAIN msssim_val |-> Comps(msssim_val[n], InComplex)[j]])

(* C7: 'none' returns the per-item scores unchanged, 'mean' their          *)
(* arithmetic mean, 'sum' their sum.                                       *)
C7_Reduction ==
    pc \in {"forward", "done"} =>
        CASE conf.reduction = "none" -> score = msssim_val
          [] conf.reduction = "mean" ->
                \A j \in 1..NComps(InComplex) :
                    RatEq(RatMul(Comps(score, InComplex)[j], <<Len(msssim_val), 1>>),
                          C7_SumOfItems(j))
          [] conf.reduction = "sum" ->
                \A j \in 1..NComps(InComplex) :
                    RatEq(Comps(score, InComplex)[j], C7_SumOfItems(j))

C7_Witness ==
    /\ pc = "done" /\ entry = "metric" /\ conf.reduction = "mean" /\ ~InComplex
    /\ Len(msssim_val) = 2
    /\ msssim_val[1] = One /\ msssim_val[2] = Zero
    /\ RatEq(score, <<1, 2>>)

-----------------------------------------------------------------------------
\* term i of item n, channel c: contrast below the last level, SSIM at it
\* (levels counted from 1)
C8_Term(i, n, c) ==
    IF i < InLevels THEN inp.resp[i][n][c].cs ELSE inp.resp[InLevels][n][c].ssim

\* complex numbers with integer parts, multiplied as complex numbers
C8_Mul(a, b) == <<a[1] * b[1] - a[2] * b[2], a[1] * b[2] + a[2] * b[1]>>

RECURSIVE C8_Power(_, _)
C8_Power(z, m) == IF m = 0 THEN <<1, 0>> ELSE C8_Mul(C8_Power(z, m - 1), z)

C8_Rectified(t) ==
    IF InComplex THEN <<Max(t[1], 0), Max(t[2], 0)>> ELSE <<Max(t, 0), 0>>

\* the product over the levels 1..i of term ** weight, for whole weights
RECURSIVE C8_Product(_, _, _)
C8_Product(i, n, c) ==
    IF i = 0 THEN <<1, 0>>
    ELSE C8_Mul(C8_Product(i - 1, n, c),
                C8_Power(C8_Rectified(C8_Term(i, n, c)), InWeights[i] \div WeightUnit))

RECURSIVE C8_ChannelSum(_, _, _)
C8_ChannelSum(n, c, j) ==
    IF c = 0 THEN 0 ELSE C8_ChannelSum(n, c - 1, j) + C8_Product(InLevels, n, c)[j]

C8_WholeWeights == \A i \in DOMAIN InWeights : InWeights[i] % WeightUnit = 0

(* C8: the primitive is called once per level, level 0 on the image as it  *)
(* came and each later level after one more downsampling; the L terms are  *)
(* the contrast terms of levels 0..L-2 followed by the SSIM value of level *)
(* L-1, and term i is raised to weight i.                                  *)
C8_TermsInLevelOrder ==
    pc \in {"reduce", "forward", "done"} =>
        /\ Len(calls) = InLevels
        /\ \A i \in DOMAIN calls :
              /\ calls[i].level = i - 1
              /\ calls[i].pooled = i - 1
        /\ Len(pools) = InLevels - 1
        /\ Len(stacked) = InLevels
        /\ \A i \in DOMAIN stacked : \A n \in 1..InN : \A c \in 1..InC :
              stacked[i][n][c] = C8_Term(i, n, c)
        /\ C8_WholeWeights =>
              \A n \in 1..InN : \A j \in 1..NComps(InComplex) :
                  RatEq(Comps(msssim_val[n], InComplex)[j],
                        <<C8_ChannelSum(n, InC, j), InC>>)

\* three levels, and the last level's contrast term differs from its SSIM value
C8_Witness ==
    /\ pc = "done" /\ InLevels = 3 /\ Len(calls) = 3
    /\ inp.resp[3][1][1].cs # inp.resp[3][1][1].ssim
    /\ stacked[3][1][1] = inp.resp[3][1][1].ssim

\* one level only
C8_WitnessOneLevel ==
    /\ pc = "done" /\ InLevels = 1 /\ Len(calls) = 1 /\ pools = <<>>
    /\ inp.resp[1][1][1].cs # inp.resp[1][1][1].ssim

-----------------------------------------------------------------------------
(* C9: padding by max(H % 2, W % 2) on the top and the left makes both     *)
(* padded dimensions even, and the pooling yields half of each.            *)
C9_PaddedDimensionsEven ==
    \A i \in DOMAIN pools :
        LET H == Size(pools[i].in, 2)
            W == Size(pools[i].in, 3)
            PH == Size(pools[i].padded, 2)
            PW == Size(pools[i].padded, 3)
        IN  /\ PH = H + Max(H % 2, W % 2)
            /\ PW = W + Max(H % 2, W % 2)
            /\ PH % 2 = 0 /\ PW % 2 = 0
            /\ 2 * Size(pools[i].out, 2) = PH
            /\ 2 * Size(pools[i].out, 3) = PW

-----------------------------------------------------------------------------
C10_CeilDiv(a, b) == (a + b - 1) \div b

(* C10: once the size check passed, at every level x and y have the same   *)
(* shape, height and width are ceil(H / 2^i) and ceil(W / 2^i), and both   *)
(* are at least the kernel side.                                           *)
C10_KernelFits ==
    \A i \in DOMAIN calls :
        /\ calls[i].x = calls[i].y
        /\ Size(calls[i].x, 2) = C10_CeilDiv(InH, 2 ^ (i - 1))
        /\ Size(calls[i].x, 3) = C10_CeilDiv(InW, 2 ^ (i - 1))
        /\ Size(calls[i].x, 2) >= InK
        /\ Size(calls[i].x, 3) >= InK
        /\ Size(calls[i].x, 0) = InN /\ Size(calls[i].x, 1) = InC

\* 5 x 6 under a 3 x 3 kernel and two levels: 5 x 6, then 3 x 3
C10_Witness ==
    /\ Len(calls) = 2 /\ InK = 3 /\ InLevels = 2
    /\ InH = 5 /\ InW = 6
    /\ Size(calls[2].x, 2) = 3 /\ Size(calls[2].x, 3) = 3

====
